---- MODULE Spec2Model ----
(***************************************************************************)
(* OTP email authentication of gigz-api (cloud/otp.ts, lib/crypto.ts,      *)
(* lib/resend.ts): the cloud functions requestOTP, verifyOTP and resendOTP *)
(* over the OTPCode and OTPRateLimit classes, the _User/_Session store and *)
(* the mail sender.                                                        *)
(*                                                                         *)
(* Time is counted in minutes; the source counts milliseconds and scales   *)
(* every duration by 60 * 1000, so comparisons are the same.  Strings are  *)
(* sequences of one-character strings.                                     *)
(***************************************************************************)
EXTENDS Integers, Sequences, FiniteSets, TLC

(***************************************************************************)
(* Program constants.                                                      *)
(***************************************************************************)
OTP_EXPIRY_MINUTES == 10
MAX_ATTEMPTS == 5
RATE_LIMIT_EMAIL_PER_HOUR == 5
RATE_LIMIT_IP_PER_HOUR == 10
RATE_LIMIT_RESEND_PER_10MIN == 3
EMAIL_WINDOW_MINUTES == 60
IP_WINDOW_MINUTES == 60
RESEND_WINDOW_MINUTES == 10
CODE_LENGTH == 6

(***************************************************************************)
(* Bounds of the model.                                                    *)
(***************************************************************************)
\* The clock runs from 0 to MaxTime minutes.
MaxTime == 20
\* At most MaxSessions sessions are minted in one behaviour.
MaxSessions == 2
\* The clock of the specifications about the limiters stops at MaxRateTime.
MaxRateTime == 60
\* The clock of the specification about the resend limiter stops at
\* MaxResendTime.
MaxResendTime == 10
MaxCalls == 1

(***************************************************************************)
(* Strings.                                                                *)
(***************************************************************************)
Whitespace == {" "}

DigitChars == <<"0", "1", "2", "3", "4", "5", "6", "7", "8", "9">>

IsDigit(ch) == \E i \in 1..10 : DigitChars[i] = ch

\* String.prototype.toLowerCase, on the letters the model's inputs use.
LowerChar(ch) ==
    CASE ch = "A" -> "a"
      [] ch = "B" -> "b"
      [] ch = "C" -> "c"
      [] ch = "D" -> "d"
      [] OTHER -> ch

toLowerCase(s) == [i \in 1..Len(s) |-> LowerChar(s[i])]

\* String.prototype.trim: drops leading and trailing whitespace.
RECURSIVE trimStart(_)
trimStart(s) ==
    IF s # <<>> /\ Head(s) \in Whitespace THEN trimStart(Tail(s)) ELSE s

RECURSIVE trimEnd(_)
trimEnd(s) ==
    IF s # <<>> /\ s[Len(s)] \in Whitespace
    THEN trimEnd(SubSeq(s, 1, Len(s) - 1))
    ELSE s

trim(s) == trimEnd(trimStart(s))

\* /^[^\s@]+@[^\s@]+\.[^\s@]+$/ : no whitespace, exactly one "@" with at least
\* one character before it, and after it a "." that has at least one character
\* on each side.
validateEmail(email) ==
    /\ \A i \in 1..Len(email) : email[i] \notin Whitespace
    /\ \E at \in 2..Len(email) :
          /\ email[at] = "@"
          /\ \A i \in 1..Len(email) : email[i] = "@" => i = at
          /\ \E dot \in (at + 2)..(Len(email) - 1) : email[dot] = "."

\* /^\d{6}$/
\* The test of the digits without the test of the length.
validCodeFormatAnyLength(code) == \A i \in 1..Len(code) : IsDigit(code[i])

validCodeFormat(code) ==
    /\ Len(code) = CODE_LENGTH
    /\ \A i \in 1..Len(code) : IsDigit(code[i])

(***************************************************************************)
(* lib/crypto.ts                                                           *)
(***************************************************************************)
\* SHA-256 as an injective tagging: equal digests only for equal inputs.
hashSHA256(value) == <<"sha256", value>>

normalizeEmail(email) == trim(toLowerCase(email))

\* Number.prototype.toString for n >= 0.
RECURSIVE toString(_)
toString(n) ==
    IF n < 10
    THEN <<DigitChars[n + 1]>>
    ELSE Append(toString(n \div 10), DigitChars[(n % 10) + 1])

RECURSIVE padStart(_, _, _)
padStart(s, len, fill) ==
    IF Len(s) >= len THEN s ELSE padStart(<<fill>> \o s, len, fill)

\* generateOTPCode with randomInt(0, 1000000) having drawn n.
generateOTPCode(n) == padStart(toString(n), CODE_LENGTH, "0")

(***************************************************************************)
(* Inputs of the model.                                                    *)
(***************************************************************************)
\* request.params.email: absent, malformed, and well-formed addresses, two of
\* which differ only in case.
NoEmail == <<>>
EmailA == <<"a", "@", "b", ".", "c">>
EmailAUpper == <<"A", "@", "B", ".", "c">>
EmailD == <<"d", "@", "b", ".", "c">>
EmailNoAt == <<"a", "b", ".", "c">>
EmailSpace == <<"a", "@", "b", ".", "c", " ">>

\* request.ip: absent, or an address.
NoIP == <<>>
IP1 == <<"1", ".", "1">>

\* randomInt(0, 1000000) draws of generateOTPCode.
Draws == {7, 123456}

\* request.params.code: absent, malformed, the two codes the draws give, and a
\* well-formed code that is never issued.
NoCode == <<>>
CodeShort == <<"1", "2", "3", "4", "5">>
CodeAlpha == <<"1", "2", "3", "4", "5", "x">>
CodeNever == <<"9", "9", "9", "9", "9", "9">>
CodeLong == <<"1", "2", "3", "4", "5", "6", "7">>

(***************************************************************************)
(* Parse.Error codes and the responses of the cloud functions.             *)
(***************************************************************************)
NO_ERROR == "NONE"
INVALID_VALUE == "INVALID_VALUE"
OBJECT_NOT_FOUND == "OBJECT_NOT_FOUND"
INTERNAL_SERVER_ERROR == "INTERNAL_SERVER_ERROR"
\* The error of a rejected store operation that the functions do not catch.
STORE_ERROR == "STORE_ERROR"

NoToken == <<>>
NoUser == <<>>

\* A thrown Parse.Error.
Thrown(op, code, message) ==
    [op |-> op, error |-> code, message |-> message, success |-> FALSE,
     expiresIn |-> 0, sessionToken |-> NoToken, isNewUser |-> FALSE,
     user |-> NoUser]

\* { success: true, expiresIn: OTP_EXPIRY_MINUTES * 60 }
IssueResult(op) ==
    [op |-> op, error |-> NO_ERROR, message |-> "", success |-> TRUE,
     expiresIn |-> OTP_EXPIRY_MINUTES * 60, sessionToken |-> NoToken,
     isNewUser |-> FALSE, user |-> NoUser]

\* { sessionToken, user: formatUserProfile(user), isNewUser }
AuthResult(sessionToken, userEmail, isNewUser) ==
    [op |-> "verifyOTP", error |-> NO_ERROR, message |-> "", success |-> FALSE,
     expiresIn |-> 0, sessionToken |-> sessionToken, isNewUser |-> isNewUser,
     user |-> userEmail]

\* What a call did with sendOTPEmail.
MailNone == "none"
MailSkipped == "skipped"
MailDelivered == "delivered"
MailFailed == "failed"

\* The mail sender's condition: no RESEND_API_KEY, sending, or answering with
\* an error.
Mailers == {"unconfigured", "ok", "error"}

(***************************************************************************)
(* The object store: classes OTPCode and OTPRateLimit.  A record's id       *)
(* stands for its objectId: unique among the records of its key.           *)
(***************************************************************************)
RECURSIVE LeastFree(_, _)
LeastFree(used, n) == IF n \in used THEN LeastFree(used, n + 1) ELSE n

FreshId(ids) == LeastFree(ids, 0)

\* The comparison with its operands exchanged.
InWindowReversed(window_start, windowStart) == windowStart > window_start

\* query.greaterThan("window_start", windowStart)
InWindow(window_start, windowStart) == window_start > windowStart

\* The test with > for >=.
LimitReachedLate(count, limit) == count > limit

\* if (count >= limit)
LimitReached(count, limit) == count >= limit

\* The OTPRateLimit records query.first may return.
RateLimitFound(rls, t, identifierHash, type, windowMinutes) ==
    {r \in rls : /\ r.identifier_hash = identifierHash
                 /\ r.type = type
                 /\ InWindow(r.window_start, t - windowMinutes)}

\* The new object with count 0.
NewRateLimitUncounted(rls, t, identifierHash, type) ==
    [id |-> FreshId({r.id : r \in {x \in rls :
                                     /\ x.identifier_hash = identifierHash
                                     /\ x.type = type}}),
     identifier_hash |-> identifierHash,
     type |-> type,
     count |-> 0,
     window_start |-> t]

\* A new OTPRateLimit object with count 1 and window_start now.
NewRateLimit(rls, t, identifierHash, type) ==
    [id |-> FreshId({r.id : r \in {x \in rls :
                                     /\ x.identifier_hash = identifierHash
                                     /\ x.type = type}}),
     identifier_hash |-> identifierHash,
     type |-> type,
     count |-> 1,
     window_start |-> t]

\* The increment not saved.
IncrementCountLost(rls, existing) == rls

\* The count lowered by one.
IncrementCountDown(rls, existing) ==
    (rls \ {existing}) \cup {[existing EXCEPT !.count = @ - 1]}

\* existing.increment("count"); existing.save()
IncrementCount(rls, existing) ==
    (rls \ {existing}) \cup {[existing EXCEPT !.count = @ + 1]}

\* checkRateLimit(identifierHash, type, limit, windowMinutes) at time t: the
\* set of outcomes [exceeded, rls], one per record query.first may return.
checkRateLimit(rls, t, identifierHash, type, limit, windowMinutes) ==
    LET found == RateLimitFound(rls, t, identifierHash, type, windowMinutes)
    IN  IF found # {}
        THEN {IF LimitReached(existing.count, limit)
              THEN [exceeded |-> TRUE, rls |-> rls]
              ELSE [exceeded |-> FALSE, rls |-> IncrementCount(rls, existing)]
              : existing \in found}
        ELSE {[exceeded |-> FALSE,
               rls |-> rls \cup {NewRateLimit(rls, t, identifierHash, type)}]}

(***************************************************************************)
(* lib/resend.ts                                                           *)
(***************************************************************************)
\* sendOTPEmail(to, code): returns without sending when no client is
\* configured, throws when the provider answers with an error.
sendOTPEmail(mailer) ==
    CASE mailer = "unconfigured" -> [threw |-> FALSE, mail |-> MailSkipped]
      [] mailer = "ok" -> [threw |-> FALSE, mail |-> MailDelivered]
      [] OTHER -> [threw |-> TRUE, mail |-> MailFailed]

(***************************************************************************)
(* requestOTP and resendOTP.  An outcome is [otps, rls, resp, mail, issued, *)
(* passed]: the stores after the call, the response, what was done with    *)
(* the mail sender, the code generated (NoCode when none was), and the     *)
(* limiters that admitted the call.                                        *)
(***************************************************************************)
\* The rate-limited call throwing.
RateLimitedThrows(op, otps, rls, passed) ==
    [otps |-> otps, rls |-> rls,
     resp |-> Thrown(op, INTERNAL_SERVER_ERROR, "Too many requests"),
     mail |-> MailNone, issued |-> NoCode, passed |-> passed]

\* The early return of a rate-limited call.
RateLimited(op, otps, rls, passed) ==
    [otps |-> otps, rls |-> rls, resp |-> IssueResult(op), mail |-> MailNone,
     issued |-> NoCode, passed |-> passed]

\* A call that throws before it reads the store.
Rejected(op, otps, rls, message) ==
    [otps |-> otps, rls |-> rls, resp |-> Thrown(op, INVALID_VALUE, message),
     mail |-> MailNone, issued |-> NoCode, passed |-> {}]

\* The existing codes left in the store.
DestroyExistingSkipped(otps, emailHash) == otps

\* The codes of every email destroyed.
DestroyExistingOfAll(otps, emailHash) == {}

\* existingQuery.find() and Parse.Object.destroyAll(existingCodes)
DestroyExisting(otps, emailHash) ==
    otps \ {r \in otps : r.email_hash = emailHash}

\* The new record with one attempt counted and a life twice as long.
NewOTPRecordUsed(otps, emailHash, codeHash, expiresAt) ==
    [id |-> FreshId({r.id : r \in {x \in otps : x.email_hash = emailHash}}),
     email_hash |-> emailHash,
     code_hash |-> codeHash,
     expires_at |-> expiresAt + OTP_EXPIRY_MINUTES,
     attempts |-> 1]

\* new OTPCode() with attempts 0
NewOTPRecord(otps, emailHash, codeHash, expiresAt) ==
    [id |-> FreshId({r.id : r \in {x \in otps : x.email_hash = emailHash}}),
     email_hash |-> emailHash,
     code_hash |-> codeHash,
     expires_at |-> expiresAt,
     attempts |-> 0]

\* The record taken back when the mail sender throws.
IssueOTPRolledBack(op, otps, rls, t, emailHash, n, mailer, passed) ==
    LET remaining == DestroyExisting(otps, emailHash)
        otpRecord == NewOTPRecord(remaining, emailHash,
                                  hashSHA256(generateOTPCode(n)),
                                  t + OTP_EXPIRY_MINUTES)
    IN  [otps |-> IF sendOTPEmail(mailer).threw THEN remaining
                  ELSE remaining \cup {otpRecord},
         rls |-> rls,
         resp |-> IssueResult(op),
         mail |-> sendOTPEmail(mailer).mail,
         issued |-> generateOTPCode(n),
         passed |-> passed]

\* Delete any existing OTP for the email, generate and store a new one, send
\* it; an error of the mail sender is caught.
IssueOTP(op, otps, rls, t, emailHash, n, mailer, passed) ==
    LET remaining == DestroyExisting(otps, emailHash)
        code == generateOTPCode(n)
        codeHash == hashSHA256(code)
        expiresAt == t + OTP_EXPIRY_MINUTES
        otpRecord == NewOTPRecord(remaining, emailHash, codeHash, expiresAt)
    IN  [otps |-> remaining \cup {otpRecord},
         rls |-> rls,
         resp |-> IssueResult(op),
         mail |-> sendOTPEmail(mailer).mail,
         issued |-> code,
         passed |-> passed]

\* The per-IP check (skipped when request.ip is absent), then the issue.
CheckIPAndIssue(op, otps, rls, t, emailHash, ip, n, mailer, passed) ==
    IF ip # NoIP
    THEN {IF c.exceeded
          THEN RateLimited(op, otps, c.rls, passed)
          ELSE IssueOTP(op, otps, c.rls, t, emailHash, n, mailer,
                        passed \cup {"ip"})
          : c \in checkRateLimit(rls, t, hashSHA256(ip), "ip",
                                 RATE_LIMIT_IP_PER_HOUR, IP_WINDOW_MINUTES)}
    ELSE {IssueOTP(op, otps, rls, t, emailHash, n, mailer, passed)}

\* The per-IP check made before the per-email check.
CheckEmailAndIssueIPFirst(op, otps, rls, t, emailHash, ip, n, mailer, passed) ==
    UNION {IF i.exceeded
           THEN {RateLimited(op, otps, i.rls, passed)}
           ELSE {IF c.exceeded
                 THEN RateLimited(op, otps, c.rls,
                                  passed \cup {k \in {"ip"} : ip # NoIP})
                 ELSE IssueOTP(op, otps, c.rls, t, emailHash, n, mailer,
                               passed \cup {"email"} \cup {k \in {"ip"} : ip # NoIP})
                 : c \in checkRateLimit(i.rls, t, emailHash, "email",
                                        RATE_LIMIT_EMAIL_PER_HOUR,
                                        EMAIL_WINDOW_MINUTES)}
           : i \in IF ip # NoIP
                   THEN checkRateLimit(rls, t, hashSHA256(ip), "ip",
                                       RATE_LIMIT_IP_PER_HOUR, IP_WINDOW_MINUTES)
                   ELSE {[exceeded |-> FALSE, rls |-> rls]}}

\* The per-email check, then the per-IP check and the issue.
CheckEmailAndIssue(op, otps, rls, t, emailHash, ip, n, mailer, passed) ==
    UNION {IF c.exceeded
           THEN {RateLimited(op, otps, c.rls, passed)}
           ELSE CheckIPAndIssue(op, otps, c.rls, t, emailHash, ip, n, mailer,
                                passed \cup {"email"})
           : c \in checkRateLimit(rls, t, emailHash, "email",
                                  RATE_LIMIT_EMAIL_PER_HOUR,
                                  EMAIL_WINDOW_MINUTES)}

requestOTP(otps, rls, t, email, ip, n, mailer) ==
    IF email = NoEmail
    THEN {Rejected("requestOTP", otps, rls, "Email is required")}
    ELSE IF ~validateEmail(email)
    THEN {Rejected("requestOTP", otps, rls, "Invalid email format")}
    ELSE CheckEmailAndIssue("requestOTP", otps, rls, t,
                            hashSHA256(normalizeEmail(email)), ip, n, mailer,
                            {})

resendOTP(otps, rls, t, email, ip, n, mailer) ==
    IF email = NoEmail
    THEN {Rejected("resendOTP", otps, rls, "Email is required")}
    ELSE IF ~validateEmail(email)
    THEN {Rejected("resendOTP", otps, rls, "Invalid email format")}
    ELSE LET emailHash == hashSHA256(normalizeEmail(email))
         IN  UNION {IF c.exceeded
                    THEN {RateLimited("resendOTP", otps, c.rls, {})}
                    ELSE CheckEmailAndIssue("resendOTP", otps, c.rls, t,
                                            emailHash, ip, n, mailer,
                                            {"resend"})
                    : c \in checkRateLimit(rls, t, emailHash, "resend",
                                           RATE_LIMIT_RESEND_PER_10MIN,
                                           RESEND_WINDOW_MINUTES)}

(***************************************************************************)
(* verifyOTP.  An outcome is [otps, users, sessions, resp].                *)
(***************************************************************************)
\* The identity store's condition during one call: answering, or failing the
\* user creation, the emailVerified update, or the session creation.
Identities == {"ok", "create-error", "update-error", "session-error"}

\* The conditions in which the identity store fails a request: those above
\* and the rejection of newUserQuery.get after the user was created.
IdentityFaults == (Identities \ {"ok"}) \cup {"get-error"}

\* The comparison with its operands exchanged.
IsExpiredReversed(t, expiresAt) == expiresAt > t

\* if (new Date() > expiresAt)
IsExpired(t, expiresAt) == t > expiresAt

\* The test with > for >=, and the test left out.
AttemptsExhaustedLate(attempts) == attempts > MAX_ATTEMPTS

AttemptsExhaustedNever(attempts) == FALSE

\* if (attempts >= MAX_ATTEMPTS)
AttemptsExhausted(attempts) == attempts >= MAX_ATTEMPTS

\* The submitted hash compared with itself.
CodeMismatchSelf(codeHash, storedCodeHash) == codeHash # codeHash

\* if (codeHash !== storedCodeHash)
CodeMismatch(codeHash, storedCodeHash) == codeHash # storedCodeHash

\* The record left in the store.
DestroyRecordSkipped(otps, otpRecord) == otps

\* otpRecord.destroy()
DestroyRecord(otps, otpRecord) == otps \ {otpRecord}

\* The increment not saved.
IncrementAttemptsLost(otps, otpRecord) == otps

\* otpRecord.increment("attempts"); otpRecord.save()
IncrementAttempts(otps, otpRecord) ==
    (otps \ {otpRecord}) \cup {[otpRecord EXCEPT !.attempts = @ + 1]}

\* A session token: "r:" and a value no other session has.
NewSessionToken(sessions) == <<"r:", Cardinality(sessions) + 1>>

VerifyFailed(otps, users, sessions, code, message) ==
    [otps |-> otps, users |-> users, sessions |-> sessions,
     resp |-> Thrown("verifyOTP", code, message)]

\* Every user taken for a new one.
AuthenticateAsNew(otps, users, sessions, normalizedEmail, identity) ==
    [otps |-> otps,
     users |-> users \cup {[email |-> normalizedEmail, emailVerified |-> TRUE]},
     sessions |-> sessions \cup
         {[user |-> normalizedEmail, sessionToken |-> NewSessionToken(sessions)]},
     resp |-> AuthResult(NewSessionToken(sessions), normalizedEmail, TRUE)]

\* Find or create the user by email and mint the session.
Authenticate(otps, users, sessions, normalizedEmail, identity) ==
    LET existingUser == {u \in users : u.email = normalizedEmail}
        isNewUser == existingUser = {}
        sessionToken == NewSessionToken(sessions)
        session == [user |-> normalizedEmail, sessionToken |-> sessionToken]
    IN  IF isNewUser
        THEN IF identity = "create-error"
             THEN VerifyFailed(otps, users, sessions, INTERNAL_SERVER_ERROR,
                               "Failed to create account. Please try again.")
             ELSE IF identity = "get-error"
             THEN [otps |-> otps,
                   users |-> users \cup
                       {[email |-> normalizedEmail, emailVerified |-> TRUE]},
                   sessions |-> sessions \cup {session},
                   resp |-> Thrown("verifyOTP", STORE_ERROR, "")]
             ELSE [otps |-> otps,
                   users |-> users \cup
                       {[email |-> normalizedEmail,
                         emailVerified |-> identity # "update-error"]},
                   sessions |-> sessions \cup {session},
                   resp |-> AuthResult(sessionToken, normalizedEmail, TRUE)]
        ELSE IF identity = "session-error"
             THEN VerifyFailed(otps, users, sessions, INTERNAL_SERVER_ERROR,
                               "Failed to create session. Please try again.")
             ELSE [otps |-> otps,
                   users |-> users,
                   sessions |-> sessions \cup {session},
                   resp |-> AuthResult(sessionToken, normalizedEmail, FALSE)]

\* The checks on the record query.first returned.
VerifyRecord(otps, users, sessions, t, normalizedEmail, codeHash, otpRecord, identity) ==
    IF IsExpired(t, otpRecord.expires_at)
    THEN VerifyFailed(DestroyRecord(otps, otpRecord), users, sessions,
                      OBJECT_NOT_FOUND, "Invalid or expired code")
    ELSE IF AttemptsExhausted(otpRecord.attempts)
    THEN VerifyFailed(DestroyRecord(otps, otpRecord), users, sessions,
                      OBJECT_NOT_FOUND,
                      "Too many failed attempts. Please request a new code.")
    ELSE IF CodeMismatch(codeHash, otpRecord.code_hash)
    THEN VerifyFailed(IncrementAttempts(otps, otpRecord), users, sessions,
                      OBJECT_NOT_FOUND, "Invalid or expired code")
    ELSE Authenticate(DestroyRecord(otps, otpRecord), users, sessions,
                      normalizedEmail, identity)

\* The query without its constraint on email_hash.
FindOTPAny(otps, emailHash) == otps

\* query.equalTo("email_hash", emailHash): the records query.first may
\* return.
FindOTP(otps, emailHash) == {r \in otps : r.email_hash = emailHash}

verifyOTP(otps, users, sessions, t, email, code, identity) ==
    IF email = NoEmail \/ code = NoCode
    THEN {VerifyFailed(otps, users, sessions, INVALID_VALUE,
                       "Email and code are required")}
    ELSE IF ~validateEmail(email)
    THEN {VerifyFailed(otps, users, sessions, INVALID_VALUE,
                       "Invalid email format")}
    ELSE IF ~validCodeFormat(code)
    THEN {VerifyFailed(otps, users, sessions, INVALID_VALUE,
                       "Invalid code format")}
    ELSE LET normalizedEmail == normalizeEmail(email)
             emailHash == hashSHA256(normalizedEmail)
             codeHash == hashSHA256(code)
             found == FindOTP(otps, emailHash)
         IN  IF found = {}
             THEN {VerifyFailed(otps, users, sessions, OBJECT_NOT_FOUND,
                                "Invalid or expired code")}
             ELSE {VerifyRecord(otps, users, sessions, t, normalizedEmail,
                                codeHash, otpRecord, identity)
                   : otpRecord \in found}

(***************************************************************************)
(* The system: the clock, the two classes, the identity store, and the     *)
(* last call's response and use of the mail sender.                        *)
(*                                                                         *)
(* hist is a history variable.  For each normalized email it records what  *)
(* the callers did:                                                        *)
(*   issued, issuedAt  the last code generated for the email and the time  *)
(*                     of that call (NoCode before the first);             *)
(*   superseded        the code that call replaced, when no verifyOTP call *)
(*                     for the email came between the two (else NoCode);   *)
(*   streak            the number of verifyOTP calls for the email since   *)
(*                     then, as long as each carried a wrong code and came *)
(*                     no later than issuedAt + OTP_EXPIRY_MINUTES; Broken *)
(*                     after any other verifyOTP call; once at             *)
(*                     MAX_ATTEMPTS it stays there;                        *)
(*   rights            the number of verifyOTP calls since then that       *)
(*                     carried the issued code (counted up to 2);          *)
(*   verified          a verifyOTP call since then returned a session.     *)
(*                                                                         *)
(* rate is a history variable too, kept by the specifications about the    *)
(* limiters and Unwatched in the others.  For each limiter key (type and   *)
(* identifier hash) in its domain it records the calls the limiter let pass: log, the    *)
(* times of the latest ones, and the window they fall in:                  *)
(* start, the time of the first call that passed once the previous window  *)
(* was over, and n, the number of calls that passed since start; stopped   *)
(* tells that the limiter stopped the last requestOTP or resendOTP call.   *)
(*                                                                         *)
(* calls holds the calls in progress, one per caller: the store operation  *)
(* the call will do next (pc), its arguments, the objects its last query   *)
(* returned (held) and the limiters that admitted it.  A caller at rest    *)
(* has no call in progress.  In the specifications where calls run one     *)
(* after another every caller stays at rest.  made counts the calls the    *)
(* caller has made at the same time as other callers' calls.               *)
(***************************************************************************)
VARIABLES now, otps, rls, users, sessions, resp, mail, hist, rate, calls

vars == <<now, otps, rls, users, sessions, resp, mail, hist, rate, calls>>

ValidEmails == {EmailA, EmailAUpper, EmailD}
Owners == {normalizeEmail(e) : e \in ValidEmails}
GenCodes == {generateOTPCode(n) : n \in Draws}
Broken == 0 - 1

NoCall == Thrown("none", NO_ERROR, "")

NoHistory ==
    [issued |-> NoCode, issuedAt |-> 0, superseded |-> NoCode, streak |-> 0,
     rights |-> 0, verified |-> FALSE]

Unwatched == <<>>

Callers == {1, 2}

Resting ==
    [pc |-> "rest", op |-> "none", email |-> NoEmail, ip |-> NoIP,
     code |-> NoCode, kind |-> "none", held |-> {}, passed |-> {},
     made |-> 0]

Idle == [start |-> 0, n |-> 0, log |-> <<>>, stopped |-> FALSE]

EmailKey(email) == <<"email", hashSHA256(normalizeEmail(email))>>

IPKey(ip) == <<"ip", hashSHA256(ip)>>

EmailKeys == {EmailKey(e) : e \in ValidEmails}

IPKeys == {IPKey(IP1)}

ResendKey(email) == <<"resend", hashSHA256(normalizeEmail(email))>>

ResendKeys == {ResendKey(e) : e \in ValidEmails}

Limit(key) ==
    IF key[1] = "email" THEN RATE_LIMIT_EMAIL_PER_HOUR
    ELSE IF key[1] = "resend" THEN RATE_LIMIT_RESEND_PER_10MIN
    ELSE RATE_LIMIT_IP_PER_HOUR

WindowMinutes(key) ==
    IF key[1] = "email" THEN EMAIL_WINDOW_MINUTES
    ELSE IF key[1] = "resend" THEN RESEND_WINDOW_MINUTES
    ELSE IP_WINDOW_MINUTES

\* The last len elements of log.
Latest(log, len) ==
    IF Len(log) <= len THEN log
    ELSE SubSeq(log, Len(log) - len + 1, Len(log))

InitStore ==
    /\ now = 0
    /\ otps = {}
    /\ rls = {}
    /\ users = {}
    /\ sessions = {}
    /\ resp = NoCall
    /\ mail = MailNone
    /\ hist = [o \in Owners |-> NoHistory]
    /\ calls = [c \in Callers |-> Resting]

Init == InitStore /\ rate = Unwatched

\* The histories of the limiters of keys are kept.
InitRate(keys) == InitStore /\ rate = [key \in keys |-> Idle]

\* Time passes between two calls.
Tick(step, horizon) ==
    /\ now + step <= horizon
    /\ now' = now + step
    /\ UNCHANGED <<otps, rls, users, sessions, resp, mail, hist, rate, calls>>

\* The history after a requestOTP or resendOTP call with outcome out.
NoteIssue(email, out) ==
    IF out.issued # NoCode
    THEN LET o == normalizeEmail(email)
             h == hist[o]
         IN  hist' = [hist EXCEPT ![o] =
                 [issued |-> out.issued,
                  issuedAt |-> now,
                  superseded |-> IF h.streak = 0 /\ h.rights = 0
                                 THEN h.issued ELSE NoCode,
                  streak |-> 0,
                  rights |-> 0,
                  verified |-> FALSE]]
    ELSE UNCHANGED hist

\* The history after a verifyOTP call with outcome out.
NoteVerify(email, code, out) ==
    IF /\ validateEmail(email)
       /\ validCodeFormat(code)
       /\ hist[normalizeEmail(email)].issued # NoCode
    THEN LET o == normalizeEmail(email)
             h == hist[o]
         IN  hist' = [hist EXCEPT ![o] =
                 [h EXCEPT
                    !.streak = IF @ = MAX_ATTEMPTS THEN @
                               ELSE IF /\ @ # Broken
                                       /\ code # h.issued
                                       /\ now <= h.issuedAt + OTP_EXPIRY_MINUTES
                               THEN @ + 1
                               ELSE Broken,
                    !.rights = IF code = h.issued /\ @ < 2 THEN @ + 1 ELSE @,
                    !.verified = @ \/ out.resp.sessionToken # NoToken]]
    ELSE UNCHANGED hist

\* rate after a call that passed the limiter of key.
NotePass(w, key) ==
    LET fresh == w.n = 0 \/ now - w.start >= WindowMinutes(key)
    IN  [start |-> IF fresh THEN now ELSE w.start,
         n |-> IF fresh THEN 1
               ELSE IF w.n > Limit(key) THEN w.n
               ELSE w.n + 1,
         log |-> Latest(Append(w.log, now), Limit(key) + 1),
         stopped |-> FALSE]

\* The call with outcome out reached the limiter of key and returned there.
StoppedBy(key, email, ip, out) ==
    /\ out.resp.error = NO_ERROR
    /\ out.issued = NoCode
    /\ \/ /\ key = EmailKey(email)
          /\ "email" \notin out.passed
          /\ out.resp.op = "resendOTP" => "resend" \in out.passed
       \/ /\ key = IPKey(ip)
          /\ "email" \in out.passed
          /\ "ip" \notin out.passed
       \/ /\ key = ResendKey(email)
          /\ out.resp.op = "resendOTP"
          /\ "resend" \notin out.passed

\* The limiter history after a requestOTP or resendOTP call with outcome out.
NoteRate(email, ip, out) ==
    IF rate = Unwatched
    THEN UNCHANGED rate
    ELSE rate' = [key \in DOMAIN rate |->
                    IF \/ "email" \in out.passed /\ key = EmailKey(email)
                       \/ "ip" \in out.passed /\ key = IPKey(ip)
                       \/ "resend" \in out.passed /\ key = ResendKey(email)
                    THEN NotePass(rate[key], key)
                    ELSE [rate[key] EXCEPT
                            !.stopped = StoppedBy(key, email, ip, out)]]

RequestOTP(email, ip, n, mailer) ==
    \E out \in requestOTP(otps, rls, now, email, ip, n, mailer) :
        /\ otps' = out.otps
        /\ rls' = out.rls
        /\ resp' = out.resp
        /\ mail' = out.mail
        /\ UNCHANGED <<now, users, sessions, calls>>
        /\ NoteIssue(email, out)
        /\ NoteRate(email, ip, out)

ResendOTP(email, ip, n, mailer) ==
    \E out \in resendOTP(otps, rls, now, email, ip, n, mailer) :
        /\ otps' = out.otps
        /\ rls' = out.rls
        /\ resp' = out.resp
        /\ mail' = out.mail
        /\ UNCHANGED <<now, users, sessions, calls>>
        /\ NoteIssue(email, out)
        /\ NoteRate(email, ip, out)

VerifyOTP(email, code, identity) ==
    \E out \in verifyOTP(otps, users, sessions, now, email, code, identity) :
        /\ Cardinality(out.sessions) <= MaxSessions
        /\ otps' = out.otps
        /\ users' = out.users
        /\ sessions' = out.sessions
        /\ resp' = out.resp
        /\ mail' = MailNone
        /\ UNCHANGED <<now, rls, rate, calls>>
        /\ NoteVerify(email, code, out)

(***************************************************************************)
(* Spec: the life of a code.  requestOTP is called for one address written *)
(* in upper case, without a client IP; verifyOTP is called for that        *)
(* address in lower case and for a second address, with the codes that can *)
(* be issued and a code that never is; the clock reaches MaxTime.          *)
(***************************************************************************)
IssueEmails == {EmailAUpper}
VerifyEmails == {EmailA, EmailD}
VerifyCodes == GenCodes \cup {CodeNever}

Next ==
    \/ Tick(OTP_EXPIRY_MINUTES, MaxTime)
    \/ \E email \in IssueEmails, n \in Draws, mailer \in Mailers :
          RequestOTP(email, NoIP, n, mailer)
    \/ \E email \in VerifyEmails, code \in VerifyCodes,
          identity \in Identities :
          VerifyOTP(email, code, identity)

Spec == Init /\ [][Next]_vars

(***************************************************************************)
(* SpecResend: codes are issued by requestOTP and by resendOTP; the mail   *)
(* sender and the identity store answer; between two calls either no time   *)
(* passes or more than the life of a code and the resend window.           *)
(***************************************************************************)
NextResend ==
    \/ Tick(2 * OTP_EXPIRY_MINUTES, MaxTime)
    \/ \E email \in IssueEmails, n \in Draws :
          RequestOTP(email, NoIP, n, "ok")
    \/ \E email \in IssueEmails, n \in Draws :
          ResendOTP(email, NoIP, n, "ok")
    \/ \E code \in VerifyCodes :
          VerifyOTP(EmailA, code, "ok")

SpecResend == Init /\ [][NextResend]_vars

(***************************************************************************)
(* SpecEmail: the per-email limiter seen by requestOTP.  requestOTP is     *)
(* called for one address, without a client IP; verifyOTP is called with a *)
(* wrong code; the clock moves by half a window up to MaxRateTime.         *)
(***************************************************************************)
NextEmail ==
    \/ Tick(EMAIL_WINDOW_MINUTES \div 2, MaxRateTime)
    \/ \E n \in Draws, mailer \in Mailers :
          RequestOTP(EmailAUpper, NoIP, n, mailer)
    \/ VerifyOTP(EmailA, CodeNever, "ok")

SpecEmail == InitRate(EmailKeys) /\ [][NextEmail]_vars

(***************************************************************************)
(* SpecRate: the per-email limiter seen by requestOTP and resendOTP, both  *)
(* called for one address, without a client IP.                            *)
(***************************************************************************)
NextRate ==
    \/ Tick(EMAIL_WINDOW_MINUTES \div 2, MaxRateTime)
    \/ \E n \in Draws : RequestOTP(EmailAUpper, NoIP, n, "ok")
    \/ \E n \in Draws : ResendOTP(EmailA, NoIP, n, "ok")

SpecRate == InitRate(EmailKeys) /\ [][NextRate]_vars

(***************************************************************************)
(* SpecIP: the per-IP limiter.  From one client IP requestOTP is called    *)
(* for one address and resendOTP for another; requestOTP is also called    *)
(* without a client IP.                                                    *)
(***************************************************************************)
NextIP ==
    \/ Tick(IP_WINDOW_MINUTES \div 2, MaxRateTime)
    \/ \E ip \in {NoIP, IP1} : RequestOTP(EmailA, ip, 7, "ok")
    \/ ResendOTP(EmailD, IP1, 7, "ok")

SpecIP == InitRate(IPKeys) /\ [][NextIP]_vars

(***************************************************************************)
(* SpecResendRate: the resend limiter.  requestOTP and resendOTP are       *)
(* called for one address, without a client IP; the clock moves by half a  *)
(* resend window up to MaxResendTime.                                      *)
(***************************************************************************)
NextResendRate ==
    \/ Tick(RESEND_WINDOW_MINUTES \div 2, MaxResendTime)
    \/ \E n \in Draws, mailer \in Mailers :
          RequestOTP(EmailAUpper, NoIP, n, mailer)
    \/ \E n \in Draws, mailer \in Mailers :
          ResendOTP(EmailA, NoIP, n, mailer)

SpecResendRate == InitRate(ResendKeys) /\ [][NextResendRate]_vars

(***************************************************************************)
(* Claims.                                                                 *)
(***************************************************************************)
RecordsOf(o) == {r \in otps : r.email_hash = hashSHA256(o)}

Unexpired(o) == now <= hist[o].issuedAt + OTP_EXPIRY_MINUTES

ReturnedSession == resp.op = "verifyOTP" /\ resp.sessionToken # NoToken

\* The step is a verifyOTP call (a cheap test that every VerifyOTP step
\* passes; it keeps the formulas below from evaluating VerifyOTP on the steps
\* of other operations).
VerifyStep == resp'.op = "verifyOTP"

\* C1: a verifyOTP call returns a session token only if the store it read
\* held a record for the hash of the normalized email that was not past
\* expires_at, had fewer than MAX_ATTEMPTS attempts, and whose code_hash is
\* the SHA-256 of the submitted code.
C1_TokenOnlyForValidRecord ==
    [][(VerifyStep /\ resp'.sessionToken # NoToken)
       => \A email \in VerifyEmails, code \in VerifyCodes,
             identity \in Identities :
             VerifyOTP(email, code, identity)
             => \E r \in otps :
                   /\ r.email_hash = hashSHA256(normalizeEmail(email))
                   /\ ~(now > r.expires_at)
                   /\ r.attempts < MAX_ATTEMPTS
                   /\ r.code_hash = hashSHA256(code)]_vars

C1_Witness == ReturnedSession

WrongCall(o, k) ==
    /\ k >= 0
    /\ hist[o].streak = k
    /\ hist'[o].streak = k + 1

\* C3: each of the first MAX_ATTEMPTS - 1 consecutive verifyOTP calls with a
\* wrong code on an unexpired record fails with OBJECT_NOT_FOUND and leaves
\* the record in the store, its attempts equal to the number of those calls,
\* its code_hash and expires_at as issued.
C3_WrongCodeKeepsRecord ==
    [][\A o \in Owners, k \in 0..(MAX_ATTEMPTS - 2) :
          WrongCall(o, k)
          => /\ resp'.op = "verifyOTP"
             /\ resp'.error = OBJECT_NOT_FOUND
             /\ \E r \in otps' :
                   /\ RecordsOf(o)' = {r}
                   /\ r.attempts = k + 1
                   /\ r.code_hash = hashSHA256(hist[o].issued)
                   /\ r.expires_at = hist[o].issuedAt + OTP_EXPIRY_MINUTES
                   /\ \E q \in RecordsOf(o) :
                         /\ q.code_hash = r.code_hash
                         /\ q.expires_at = r.expires_at]_vars

C3_Witness ==
    \E o \in Owners :
        /\ hist[o].streak = MAX_ATTEMPTS - 1
        /\ resp.op = "verifyOTP"
        /\ resp.error = OBJECT_NOT_FOUND
        /\ \E r \in RecordsOf(o) : r.attempts = MAX_ATTEMPTS - 1

\* C4 as stated: after the MAX_ATTEMPTS-th consecutive wrong-code call on an
\* unexpired record no record exists for the email.
C4_FifthWrongDeletes ==
    [][\A o \in Owners :
          WrongCall(o, MAX_ATTEMPTS - 1) => RecordsOf(o)' = {}]_vars

\* C4 as amended: the MAX_ATTEMPTS-th consecutive wrong-code call fails with
\* OBJECT_NOT_FOUND and leaves the record in the store with attempts =
\* MAX_ATTEMPTS; the next verifyOTP call for the email, whatever its code,
\* deletes the record.
C4_SixthCallDeletes ==
    [][/\ \A o \in Owners :
             WrongCall(o, MAX_ATTEMPTS - 1)
             => /\ resp'.error = OBJECT_NOT_FOUND
                /\ \E r \in otps' :
                      /\ RecordsOf(o)' = {r}
                      /\ r.attempts = MAX_ATTEMPTS
       /\ VerifyStep
          => \A email \in VerifyEmails :
                LET o == normalizeEmail(email)
                IN  (hist[o].streak = MAX_ATTEMPTS /\ RecordsOf(o) # {})
                    => \A code \in VerifyCodes, identity \in Identities :
                          VerifyOTP(email, code, identity)
                          => RecordsOf(o)' = {}]_vars

C4_Witness ==
    \E o \in Owners :
        /\ hist[o].streak = MAX_ATTEMPTS
        /\ RecordsOf(o) = {}
        /\ resp.message = "Too many failed attempts. Please request a new code."

\* C5: once MAX_ATTEMPTS wrong-code calls were made on one issued code, every
\* verifyOTP call for the email fails with OBJECT_NOT_FOUND, the issued code
\* included, until requestOTP or resendOTP issues a new code.
C5_ExhaustedStaysRejected ==
    [][VerifyStep
       => \A email \in VerifyEmails :
             hist[normalizeEmail(email)].streak = MAX_ATTEMPTS
             => \A code \in VerifyCodes, identity \in Identities :
                   VerifyOTP(email, code, identity)
                   => /\ resp'.error = OBJECT_NOT_FOUND
                      /\ resp'.sessionToken = NoToken]_vars

C5_Witness ==
    \E o \in Owners :
        /\ hist[o].streak = MAX_ATTEMPTS
        /\ hist[o].rights >= 1
        /\ ~hist[o].verified
        /\ resp.op = "verifyOTP"
        /\ resp.error = OBJECT_NOT_FOUND

\* C6: a verifyOTP call made after issue time + OTP_EXPIRY_MINUTES on a
\* stored record fails with OBJECT_NOT_FOUND and deletes the record, whatever
\* the submitted code and the record's attempts.
C6_ExpiredDeleted ==
    [][VerifyStep
       => \A email \in VerifyEmails :
             LET o == normalizeEmail(email)
             IN  (RecordsOf(o) # {} /\ ~Unexpired(o))
                 => \A code \in VerifyCodes, identity \in Identities :
                       VerifyOTP(email, code, identity)
                       => /\ resp'.error = OBJECT_NOT_FOUND
                          /\ resp'.sessionToken = NoToken
                          /\ RecordsOf(o)' = {}]_vars

\* The first verifyOTP call that was not a wrong-code call on the unexpired
\* code did not carry the issued code: it came after the expiry, and the
\* record is gone.
C6_Witness ==
    \E o \in Owners :
        /\ hist[o].issued # NoCode
        /\ hist[o].streak = Broken
        /\ hist[o].rights = 0
        /\ RecordsOf(o) = {}
        /\ resp.op = "verifyOTP"
        /\ resp.error = OBJECT_NOT_FOUND

\* The step is a requestOTP call for o that generated a code: the mail
\* sender was called and the history of o starts again.
AdmittedRequest(o) ==
    /\ resp'.op = "requestOTP"
    /\ mail' # MailNone
    /\ hist'[o].issuedAt = now
    /\ hist'[o].streak = 0
    /\ hist'[o].rights = 0
    /\ ~hist'[o].verified
    /\ \A p \in Owners \ {o} : hist'[p] = hist[p]

\* C7: an admitted requestOTP call that follows an admitted requestOTP call
\* for the same email leaves one record for the email, holding the hash of
\* its own code, attempts 0 and expires_at = now + OTP_EXPIRY_MINUTES; from
\* then on the first code, when it differs from the second, fails with
\* OBJECT_NOT_FOUND, and only the second code returns a session.
C7_SecondCodeReplacesFirst ==
    [][/\ \A o \in Owners :
             (hist[o].issued # NoCode /\ AdmittedRequest(o))
             => \E r \in otps' :
                   /\ RecordsOf(o)' = {r}
                   /\ r.code_hash = hashSHA256(hist'[o].issued)
                   /\ r.expires_at = now + OTP_EXPIRY_MINUTES
                   /\ r.attempts = 0
       /\ VerifyStep
          => \A email \in VerifyEmails :
                LET h == hist[normalizeEmail(email)]
                IN  h.superseded # NoCode
                    => \A identity \in Identities :
                          /\ resp'.sessionToken # NoToken
                             => \A code \in VerifyCodes :
                                   VerifyOTP(email, code, identity)
                                   => code = h.issued
                          /\ h.superseded # h.issued
                             => (VerifyOTP(email, h.superseded, identity)
                                 => resp'.error = OBJECT_NOT_FOUND)]_vars

C7_Witness ==
    \E o \in Owners :
        /\ hist[o].superseded # NoCode
        /\ hist[o].superseded # hist[o].issued
        /\ hist[o].verified
        /\ ReturnedSession

\* The step is a requestOTP or resendOTP call that returned before it
\* generated a code: the answer is {success: true, expiresIn: 600}, the
\* OTPCode store is as it was and the mail sender was not called.
ReturnedEarly ==
    /\ resp'.error = NO_ERROR
    /\ resp'.success
    /\ resp'.expiresIn = OTP_EXPIRY_MINUTES * 60
    /\ otps' = otps
    /\ mail' = MailNone

ClientIPs == {NoIP, IP1}

\* The step is a requestOTP call for email from ip.
RequestStep(email, ip) ==
    \E n \in Draws, mailer \in Mailers : RequestOTP(email, ip, n, mailer)

\* The step is a resendOTP call for email from ip.
ResendStep(email, ip) ==
    \E n \in Draws, mailer \in Mailers : ResendOTP(email, ip, n, mailer)

\* C8 as stated: a requestOTP call for an email made after five admitted
\* calls for it, less than EMAIL_WINDOW_MINUTES after the first of the
\* five, returns {success: true, expiresIn: 600}, leaves the OTPCode store
\* unchanged and sends no email.
C8_SixthWithinHourOfFirst ==
    [][(now' = now /\ resp'.op = "requestOTP" /\ EmailKeys \subseteq DOMAIN rate)
       => \A email \in ValidEmails, ip \in ClientIPs :
             LET latest == Latest(rate[EmailKey(email)].log,
                                  RATE_LIMIT_EMAIL_PER_HOUR)
             IN  (/\ Len(latest) = RATE_LIMIT_EMAIL_PER_HOUR
                  /\ now - latest[1] < EMAIL_WINDOW_MINUTES
                  /\ RequestStep(email, ip))
                 => ReturnedEarly]_vars

\* C8 as amended: a requestOTP call for an email made when
\* RATE_LIMIT_EMAIL_PER_HOUR calls have passed the per-email limiter in the
\* current window of the email, the window that began with the first call
\* to pass once the previous window was over and that lasts
\* EMAIL_WINDOW_MINUTES, returns {success: true, expiresIn: 600}, leaves the
\* OTPCode store unchanged (the record keeps its code_hash, expires_at and
\* attempts) and sends no email.
C8_SixthInWindowReturnsEarly ==
    [][(now' = now /\ resp'.op = "requestOTP" /\ EmailKeys \subseteq DOMAIN rate)
       => \A email \in ValidEmails, ip \in ClientIPs :
             LET w == rate[EmailKey(email)]
             IN  (/\ w.n >= RATE_LIMIT_EMAIL_PER_HOUR
                  /\ now - w.start < EMAIL_WINDOW_MINUTES
                  /\ RequestStep(email, ip))
                 => ReturnedEarly /\ rls' = rls]_vars

\* A requestOTP call has just returned without sending, in a window in which
\* five calls passed, and the record of the email has counted a wrong code.
C8_Witness ==
    /\ EmailKeys \subseteq DOMAIN rate
    /\ rate[EmailKey(EmailA)].stopped
    /\ resp.op = "requestOTP"
    /\ resp.success
    /\ mail = MailNone
    /\ rate[EmailKey(EmailA)].n = RATE_LIMIT_EMAIL_PER_HOUR
    /\ now - rate[EmailKey(EmailA)].start < EMAIL_WINDOW_MINUTES
    /\ \E r \in RecordsOf(normalizeEmail(EmailA)) : r.attempts > 0

\* C9 as stated: no RATE_LIMIT_EMAIL_PER_HOUR + 1 calls for one email that
\* passed the per-email limiter lie less than EMAIL_WINDOW_MINUTES apart.
C9_AtMostFivePerInterval ==
    \A key \in EmailKeys \cap DOMAIN rate :
        LET log == rate[key].log
        IN  Len(log) > RATE_LIMIT_EMAIL_PER_HOUR
            => log[Len(log)] - log[Len(log) - RATE_LIMIT_EMAIL_PER_HOUR]
                    >= EMAIL_WINDOW_MINUTES

\* C9 as amended: in one window of an email, the EMAIL_WINDOW_MINUTES that
\* begin with the first call to pass once the previous window was over, at
\* most RATE_LIMIT_EMAIL_PER_HOUR calls (requestOTP and resendOTP together)
\* pass the per-email limiter and issue a code; a 60-minute interval that
\* lies across two windows can hold more.
C9_AtMostFivePerWindow ==
    \A key \in EmailKeys \cap DOMAIN rate :
        rate[key].n <= RATE_LIMIT_EMAIL_PER_HOUR

\* The fifth call to pass in the current window was a resendOTP call.
C9_Witness ==
    /\ EmailKeys \subseteq DOMAIN rate
    /\ rate[EmailKey(EmailA)].n = RATE_LIMIT_EMAIL_PER_HOUR
    /\ resp.op = "resendOTP"
    /\ mail = MailDelivered

\* C10 as stated: after RATE_LIMIT_IP_PER_HOUR calls from one client IP
\* passed the per-IP limiter, a call from that IP made less than
\* IP_WINDOW_MINUTES after the first of them returns {success: true,
\* expiresIn: 600}, creates or replaces no OTPCode record and sends no email.
C10_EleventhWithinHourOfFirst ==
    [][(/\ now' = now
        /\ resp'.op \in {"requestOTP", "resendOTP"}
        /\ IPKeys \subseteq DOMAIN rate)
       => \A email \in ValidEmails, ip \in ClientIPs \ {NoIP} :
             LET latest == Latest(rate[IPKey(ip)].log, RATE_LIMIT_IP_PER_HOUR)
             IN  (/\ Len(latest) = RATE_LIMIT_IP_PER_HOUR
                  /\ now - latest[1] < IP_WINDOW_MINUTES
                  /\ RequestStep(email, ip) \/ ResendStep(email, ip))
                 => ReturnedEarly]_vars

\* C10 as amended: a requestOTP or resendOTP call from a client IP, for any
\* email, made when RATE_LIMIT_IP_PER_HOUR calls from that IP have passed
\* the per-IP limiter in the current window of the IP, the window that began
\* with the first call to pass once the previous window was over and that
\* lasts IP_WINDOW_MINUTES, returns {success: true, expiresIn: 600}, creates
\* or replaces no OTPCode record and sends no email.
C10_EleventhInWindowReturnsEarly ==
    [][(/\ now' = now
        /\ resp'.op \in {"requestOTP", "resendOTP"}
        /\ IPKeys \subseteq DOMAIN rate)
       => \A email \in ValidEmails, ip \in ClientIPs \ {NoIP} :
             LET w == rate[IPKey(ip)]
             IN  (/\ w.n >= RATE_LIMIT_IP_PER_HOUR
                  /\ now - w.start < IP_WINDOW_MINUTES
                  /\ RequestStep(email, ip) \/ ResendStep(email, ip))
                 => ReturnedEarly]_vars

\* The per-IP limiter, which has passed ten calls in its window, stopped
\* the last call, which the per-email limiter had let pass; the call
\* returned success and nothing was sent.
C10_Witness ==
    /\ IPKeys \subseteq DOMAIN rate
    /\ rate[IPKey(IP1)].stopped
    /\ rate[IPKey(IP1)].n = RATE_LIMIT_IP_PER_HOUR
    /\ now - rate[IPKey(IP1)].start < IP_WINDOW_MINUTES
    /\ resp.op \in {"requestOTP", "resendOTP"}
    /\ resp.success
    /\ mail = MailNone

\* The OTPRateLimit records of type "resend".
ResendRecords(records) == {r \in records : r.type = "resend"}

\* What a caller and the stores other than the "resend" records show of an
\* outcome of requestOTP.
Shown(out) ==
    [otps |-> out.otps, rls |-> out.rls \ ResendRecords(out.rls),
     resp |-> out.resp, mail |-> out.mail, issued |-> out.issued]

\* requestOTP does the same with and without the "resend" records in the
\* store, and leaves them as they are.
RequestIgnoresResend ==
    \A email \in ValidEmails, ip \in ClientIPs, n \in Draws, mailer \in Mailers :
       /\ {Shown(out) : out \in requestOTP(otps, rls, now, email, ip, n, mailer)}
             = {Shown(out) : out \in requestOTP(otps, rls \ ResendRecords(rls),
                                                now, email, ip, n, mailer)}
       /\ \A out \in requestOTP(otps, rls, now, email, ip, n, mailer) :
             ResendRecords(out.rls) = ResendRecords(rls)

Gone == {"ignored", "rejected"}

\* Every operation on a deleted object rejected.
RejectedWhenGone(rows, gone) == rows = {}

\* The operation on the object whose rows are rows (none when another call
\* has deleted it) is rejected.
Rejects(rows, gone) == rows = {} /\ gone = "rejected"

SameOTP(r, h) == r.id = h.id /\ r.email_hash = h.email_hash

SameRateLimit(r, h) ==
    r.id = h.id /\ r.identifier_hash = h.identifier_hash /\ r.type = h.type

\* The order of the limiters in requestOTP and resendOTP.
FirstLimiter(op) == IF op = "resendOTP" THEN "resend" ELSE "email"

NextLimiter(kind, ip) ==
    IF kind = "resend" THEN "email"
    ELSE IF kind = "email" /\ ip # NoIP THEN "ip"
    ELSE "none"

Identifier(f, kind) ==
    IF kind = "ip" THEN hashSHA256(f.ip)
    ELSE hashSHA256(normalizeEmail(f.email))

\* The OTPCode objects held by the calls in progress.
HoldingOTP ==
    {"destroyAll", "expired.destroy", "exhausted.destroy", "increment.save",
     "verified.destroy"}

HeldOTPs == UNION {calls[c].held : c \in {d \in Callers : calls[d].pc \in HoldingOTP}}

\* The call of caller c returns or throws r.
Return(c, r, m) ==
    /\ resp' = r
    /\ mail' = m
    /\ calls' = [calls EXCEPT ![c] = [Resting EXCEPT !.made = calls[c].made]]

\* The call of caller c goes on as f.
Continue(c, f) ==
    /\ calls' = [calls EXCEPT ![c] = f]
    /\ UNCHANGED <<resp, mail>>

\* query.first of checkRateLimit for the limiter kind, and the test of the
\* count of the record it returned.
QueryRateLimit(c, f, kind) ==
    LET identifierHash == Identifier(f, kind)
        key == <<kind, identifierHash>>
        found == RateLimitFound(rls, now, identifierHash, kind, WindowMinutes(key))
    IN  IF found = {}
        THEN Continue(c, [f EXCEPT !.pc = "rateLimit.save", !.kind = kind,
                                   !.held = {}])
        ELSE \E existing \in found :
                IF LimitReached(existing.count, Limit(key))
                THEN Return(c, IssueResult(f.op), MailNone)
                ELSE Continue(c, [f EXCEPT !.pc = "existing.save",
                                           !.kind = kind,
                                           !.held = {existing}])

\* requestOTP or resendOTP is called: the validation and the first
\* limiter's query.
CallIssue(c, op, email, ip, n) ==
    /\ calls[c].pc = "rest"
    /\ calls[c].made < MaxCalls
    /\ IF email = NoEmail
       THEN Return(c, Thrown(op, INVALID_VALUE, "Email is required"), MailNone)
       ELSE IF ~validateEmail(email)
       THEN Return(c, Thrown(op, INVALID_VALUE, "Invalid email format"), MailNone)
       ELSE QueryRateLimit(c, [Resting EXCEPT !.op = op, !.email = email,
                                              !.ip = ip,
                                              !.code = generateOTPCode(n),
                                              !.made = calls[c].made + 1],
                           FirstLimiter(op))
    /\ UNCHANGED <<now, otps, rls, users, sessions, hist, rate>>

\* The next limiter's query.
QueryNextRateLimit(c) ==
    /\ calls[c].pc = "query.first"
    /\ QueryRateLimit(c, calls[c], calls[c].kind)
    /\ UNCHANGED <<now, otps, rls, users, sessions, hist, rate>>

\* existing.save() with the increment of count, or rateLimit.save() of the
\* new record; checkRateLimit returns false.
SaveRateLimit(c) ==
    LET f == calls[c]
        identifierHash == Identifier(f, f.kind)
        next == NextLimiter(f.kind, f.ip)
    IN  /\ f.pc \in {"rateLimit.save", "existing.save"}
        /\ rls' = IF f.pc = "rateLimit.save"
                  THEN rls \cup {NewRateLimit(rls, now, identifierHash, f.kind)}
                  ELSE IncrementCount(rls,
                           CHOOSE r \in rls : \A h \in f.held : SameRateLimit(r, h))
        /\ Continue(c, [f EXCEPT !.pc = IF next = "none" THEN "find"
                                        ELSE "query.first",
                                 !.kind = next,
                                 !.held = {},
                                 !.passed = @ \cup {f.kind}])
        /\ UNCHANGED <<now, otps, users, sessions, hist, rate>>

\* existingQuery.find(); destroyAll of an empty list is no store operation.
FindExisting(c) ==
    LET f == calls[c]
        emailHash == hashSHA256(normalizeEmail(f.email))
        existingCodes == {r \in otps : r.email_hash = emailHash}
    IN  /\ f.pc = "find"
        /\ Continue(c, [f EXCEPT !.pc = IF existingCodes = {}
                                        THEN "otpRecord.save"
                                        ELSE "destroyAll",
                                 !.held = existingCodes])
        /\ UNCHANGED <<now, otps, rls, users, sessions, hist, rate>>

\* Parse.Object.destroyAll(existingCodes)
DestroyAllExisting(c, gone) ==
    LET f == calls[c]
        present == {r \in otps : \E h \in f.held : SameOTP(r, h)}
        missing == {h \in f.held : \A r \in otps : ~SameOTP(r, h)}
    IN  /\ f.pc = "destroyAll"
        /\ missing = {} => gone = "ignored"
        /\ otps' = otps \ present
        /\ IF missing # {} /\ Rejects({}, gone)
           THEN Return(c, Thrown(f.op, STORE_ERROR, ""), MailNone)
           ELSE Continue(c, [f EXCEPT !.pc = "otpRecord.save", !.held = {}])
        /\ UNCHANGED <<now, rls, users, sessions, hist, rate>>

\* otpRecord.save() of the new code, then sendOTPEmail and the return.
SaveOTP(c, mailer) ==
    LET f == calls[c]
        emailHash == hashSHA256(normalizeEmail(f.email))
        otpRecord == NewOTPRecord(otps \cup HeldOTPs, emailHash,
                                  hashSHA256(f.code),
                                  now + OTP_EXPIRY_MINUTES)
    IN  /\ f.pc = "otpRecord.save"
        /\ otps' = otps \cup {otpRecord}
        /\ Return(c, IssueResult(f.op), sendOTPEmail(mailer).mail)
        /\ NoteIssue(f.email, [issued |-> f.code])
        /\ UNCHANGED <<now, rls, users, sessions, rate>>

\* verifyOTP returns or throws r.
Finish(c, r) ==
    /\ Return(c, r, MailNone)
    /\ NoteVerify(calls[c].email, calls[c].code, [resp |-> r])

\* verifyOTP is called: the validation, query.first and the checks of the
\* record it returned, up to the store operation they lead to.
CallVerify(c, email, code) ==
    LET f == [Resting EXCEPT !.op = "verifyOTP", !.email = email,
                             !.code = code, !.made = calls[c].made + 1]
        emailHash == hashSHA256(normalizeEmail(email))
        found == FindOTP(otps, emailHash)
    IN  /\ calls[c].pc = "rest"
        /\ calls[c].made < MaxCalls
        /\ IF email = NoEmail \/ code = NoCode
           THEN /\ Return(c, Thrown("verifyOTP", INVALID_VALUE, "Email and code are required"), MailNone)
                /\ UNCHANGED hist
           ELSE IF ~validateEmail(email)
           THEN /\ Return(c, Thrown("verifyOTP", INVALID_VALUE, "Invalid email format"), MailNone)
                /\ UNCHANGED hist
           ELSE IF ~validCodeFormat(code)
           THEN /\ Return(c, Thrown("verifyOTP", INVALID_VALUE, "Invalid code format"), MailNone)
                /\ UNCHANGED hist
           ELSE IF found = {}
           THEN /\ Return(c, Thrown("verifyOTP", OBJECT_NOT_FOUND, "Invalid or expired code"), MailNone)
                /\ NoteVerify(email, code, [resp |-> Thrown("verifyOTP", OBJECT_NOT_FOUND, "Invalid or expired code")])
           ELSE /\ \E otpRecord \in found :
                      Continue(c, [f EXCEPT
                          !.pc = IF IsExpired(now, otpRecord.expires_at)
                                 THEN "expired.destroy"
                                 ELSE IF AttemptsExhausted(otpRecord.attempts)
                                 THEN "exhausted.destroy"
                                 ELSE IF CodeMismatch(hashSHA256(code), otpRecord.code_hash)
                                 THEN "increment.save"
                                 ELSE "verified.destroy",
                          !.held = {otpRecord}])
                /\ UNCHANGED hist
        /\ UNCHANGED <<now, otps, rls, users, sessions, rate>>

\* otpRecord.destroy(), or otpRecord.save() with the increment of attempts,
\* and the throw that follows it.
WriteOTP(c, gone) ==
    LET f == calls[c]
        rows == {r \in otps : \E h \in f.held : SameOTP(r, h)}
        failure == Thrown("verifyOTP", OBJECT_NOT_FOUND,
                          IF f.pc = "exhausted.destroy"
                          THEN "Too many failed attempts. Please request a new code."
                          ELSE "Invalid or expired code")
    IN  /\ f.pc \in HoldingOTP \ {"destroyAll"}
        /\ rows # {} => gone = "ignored"
        /\ otps' = IF rows = {} THEN otps
                   ELSE IF f.pc = "increment.save"
                   THEN IncrementAttempts(otps, CHOOSE r \in rows : TRUE)
                   ELSE DestroyRecord(otps, CHOOSE r \in rows : TRUE)
        /\ IF Rejects(rows, gone)
           THEN Finish(c, Thrown("verifyOTP", STORE_ERROR, ""))
           ELSE IF f.pc = "verified.destroy"
           THEN /\ Continue(c, [f EXCEPT !.pc = "userQuery.first", !.held = {}])
                /\ UNCHANGED hist
           ELSE Finish(c, failure)
        /\ UNCHANGED <<now, rls, users, sessions, rate>>

\* userQuery.first()
FindUser(c) ==
    LET f == calls[c]
        existingUser == {u \in users : u.email = normalizeEmail(f.email)}
    IN  /\ f.pc = "userQuery.first"
        /\ Continue(c, [f EXCEPT !.pc = IF existingUser = {} THEN "createUser"
                                        ELSE "createSession"])
        /\ UNCHANGED <<now, otps, rls, users, sessions, hist, rate>>

\* The requests to the identity store and the return: POST /users, PUT and
\* get for a new user, createSessionForUser for an existing one.  The
\* identity store keeps one user per email: it answers POST /users with an
\* error when another call has created the user.
CreateUserOrSession(c, identity) ==
    LET f == calls[c]
        normalizedEmail == normalizeEmail(f.email)
        taken == \E u \in users : u.email = normalizedEmail
        out == IF f.pc = "createUser" /\ taken
               THEN VerifyFailed(otps, users, sessions, INTERNAL_SERVER_ERROR,
                                 "Failed to create account. Please try again.")
               ELSE Authenticate(otps, users, sessions, normalizedEmail, identity)
    IN  /\ f.pc \in {"createUser", "createSession"}
        /\ Cardinality(out.sessions) <= MaxSessions
        /\ users' = out.users
        /\ sessions' = out.sessions
        /\ Finish(c, out.resp)
        /\ UNCHANGED <<now, otps, rls, rate>>

AllResting == \A c \in Callers : calls[c].pc = "rest"

(***************************************************************************)
(* SpecIssueRace: two callers call requestOTP and resendOTP for one        *)
(* address at the same time, without a client IP; the mail sender answers; *)
(* no time passes.                                                         *)
(***************************************************************************)
NextIssueRace ==
    \/ \E c \in Callers, op \in {"requestOTP", "resendOTP"}, n \in Draws :
          CallIssue(c, op, EmailA, NoIP, n)
    \/ \E c \in Callers : QueryNextRateLimit(c)
    \/ \E c \in Callers : SaveRateLimit(c)
    \/ \E c \in Callers : FindExisting(c)
    \/ \E c \in Callers, gone \in Gone : DestroyAllExisting(c, gone)
    \/ \E c \in Callers : SaveOTP(c, "ok")

SpecIssueRace == Init /\ [][NextIssueRace]_vars

(***************************************************************************)
(* SpecVerifyRace: two callers call verifyOTP for one address at the same  *)
(* time, with the codes that can be issued and a code that never is; the   *)
(* identity store answers.  While no call is in progress, requestOTP and   *)
(* verifyOTP with a wrong code are called and run alone, and the life of a *)
(* code passes.                                                            *)
(***************************************************************************)
NextVerifyRace ==
    \/ AllResting /\ Tick(2 * OTP_EXPIRY_MINUTES, MaxTime)
    \/ AllResting /\ \E n \in Draws : RequestOTP(EmailAUpper, NoIP, n, "ok")
    \/ AllResting /\ VerifyOTP(EmailA, CodeNever, "ok")
    \/ \E c \in Callers, code \in VerifyCodes : CallVerify(c, EmailA, code)
    \/ \E c \in Callers, gone \in Gone : WriteOTP(c, gone)
    \/ \E c \in Callers : FindUser(c)
    \/ \E c \in Callers : CreateUserOrSession(c, "ok")

SpecVerifyRace == Init /\ [][NextVerifyRace]_vars

(***************************************************************************)
(* SpecInput: the three functions called with what a client can send: no   *)
(* email, a malformed one, a well-formed one; no code, a malformed one,    *)
(* the issued one, a wrong one; with and without a client IP.  No time     *)
(* passes.                                                                 *)
(***************************************************************************)
BadEmails == {NoEmail, EmailNoAt, EmailSpace}
BadCodes == {NoCode, CodeShort, CodeLong, CodeAlpha}
SentCodes == BadCodes \cup {CodeNever, generateOTPCode(7)}

NextInput ==
    \/ \E email \in BadEmails : RequestOTP(email, IP1, 7, "ok")
    \/ \E email \in BadEmails : ResendOTP(email, IP1, 7, "ok")
    \/ \E email \in BadEmails, code \in {NoCode, CodeNever} :
          VerifyOTP(email, code, "ok")
    \/ \E ip \in ClientIPs : RequestOTP(EmailA, ip, 7, "ok")
    \/ ResendOTP(EmailA, IP1, 7, "ok")
    \/ \E code \in SentCodes : VerifyOTP(EmailA, code, "ok")

SpecInput == Init /\ [][NextInput]_vars

(***************************************************************************)
(* C12.  In every reachable state, the states reached by requestOTP and    *)
(* resendOTP calls for one email running at the same time included, the    *)
(* OTPCode store holds at most one record per email_hash.                  *)
(***************************************************************************)
\* C12: no two OTPCode records have the same email_hash.
C12_OneRecordPerEmail ==
    \A r1 \in otps, r2 \in otps : r1.email_hash = r2.email_hash => r1 = r2

(***************************************************************************)
(* C14.  In every reachable state, the states reached by calls running at  *)
(* the same time included, each pair of identifier_hash and kind has at    *)
(* most one OTPRateLimit record whose window_start lies within the window  *)
(* length of the current time.                                             *)
(***************************************************************************)
\* C14: no two OTPRateLimit records of one identifier_hash and type are both
\* in the window that ends now.
C14_OneRecordPerWindow ==
    \A r1 \in rls, r2 \in rls :
        (/\ r1.identifier_hash = r2.identifier_hash
         /\ r1.type = r2.type
         /\ InWindow(r1.window_start, now - WindowMinutes(<<r1.type, r1.identifier_hash>>))
         /\ InWindow(r2.window_start, now - WindowMinutes(<<r2.type, r2.identifier_hash>>)))
        => r1 = r2

(***************************************************************************)
(* C15.  When two requestOTP or resendOTP calls for one email run at the   *)
(* same time, their delete and create steps in any order, afterwards       *)
(* exactly one code verifies for the email: the code of the call whose     *)
(* record was written last.                                                *)
(***************************************************************************)
\* verifyOTP called now for email with code can return a session token.
Verifies(email, code) ==
    \E out \in verifyOTP(otps, users, sessions, now, email, code, "ok") :
        out.resp.sessionToken # NoToken

\* Each caller has made one call, both calls have returned, and both wrote a
\* record: nothing else has touched the stores.
TwoIssuesRaced ==
    /\ \A c \in Callers : calls[c].pc = "rest" /\ calls[c].made = 1
    /\ hist[normalizeEmail(EmailA)].issued # NoCode
    /\ resp = IssueResult(resp.op)

\* C15: after two calls for one email that ran at the same time, the codes
\* verifyOTP accepts for the email are exactly the code written last.
C15_LastWriterOnly ==
    TwoIssuesRaced =>
        {code \in VerifyCodes : Verifies(EmailA, code)}
            = {hist[normalizeEmail(EmailA)].issued}

(***************************************************************************)
(* C13.  In every reachable state, the states reached by verifyOTP calls   *)
(* on one record running at the same time included, every stored OTPCode   *)
(* record has 0 <= attempts <= MAX_ATTEMPTS.                               *)
(***************************************************************************)
\* C13: attempts of every stored record lies between 0 and MAX_ATTEMPTS.
C13_AttemptsBounded ==
    \A r \in otps : 0 <= r.attempts /\ r.attempts <= MAX_ATTEMPTS

C17_OneFailureResponse ==
    (/\ resp.op = "verifyOTP"
     /\ resp.error \notin {NO_ERROR, INVALID_VALUE, INTERNAL_SERVER_ERROR})
    => resp = Thrown("verifyOTP", OBJECT_NOT_FOUND, "Invalid or expired code")

(***************************************************************************)
(* C18.  For every well-formed email, requestOTP and resendOTP return      *)
(* exactly {success: true, expiresIn: 600}, whether the code was issued    *)
(* and delivered, a rate limit was exceeded or the delivery failed; the    *)
(* response depends neither on the limiters' records, nor on the delivery, *)
(* nor on a user with that email existing.                                 *)
(***************************************************************************)
\* The response { success: true, expiresIn: 600 } and nothing else.
SuccessOnly(r) ==
    /\ r.error = NO_ERROR
    /\ r.message = ""
    /\ r.success
    /\ r.expiresIn = 600
    /\ r.sessionToken = NoToken
    /\ r.user = NoUser

\* C18: in every state of the stores, a requestOTP call and a resendOTP call
\* with a well-formed email return { success: true, expiresIn: 600 },
\* whatever the client IP and the mail sender's condition.
C18_AlwaysSuccess ==
    \A ip \in ClientIPs, mailer \in Mailers :
        /\ \A out \in requestOTP(otps, rls, now, EmailA, ip, 7, mailer) :
              SuccessOnly(out.resp)
        /\ \A out \in resendOTP(otps, rls, now, EmailD, ip, 7, mailer) :
              SuccessOnly(out.resp)

\* A call was stopped by a limiter, and the store holds a full record of
\* each limiter: calls were stopped by the resend limiter, by the per-email
\* limiter and by the per-IP limiter.
C18_Witness ==
    /\ SuccessOnly(resp)
    /\ mail = MailNone
    /\ otps # {}
    /\ \E r \in rls : r.type = "resend" /\ r.count = RATE_LIMIT_RESEND_PER_10MIN
    /\ \E r \in rls : r.type = "email" /\ r.count = RATE_LIMIT_EMAIL_PER_HOUR
    /\ \E r \in rls : r.type = "ip" /\ r.count = RATE_LIMIT_IP_PER_HOUR
    /\ rate[IPKey(IP1)].stopped

(***************************************************************************)
(* C19.  A requestOTP or resendOTP call with a missing or malformed email, *)
(* and a verifyOTP call with a missing or malformed email or a code that   *)
(* is not exactly six decimal digits, fails with INVALID_VALUE and leaves  *)
(* the OTPCode store, the OTPRateLimit store, users and sessions           *)
(* unchanged.                                                              *)
(***************************************************************************)
\* The call threw INVALID_VALUE and changed none of the stores.
Refused ==
    /\ resp'.error = INVALID_VALUE
    /\ UNCHANGED <<otps, rls, users, sessions>>

\* C19: every requestOTP and resendOTP call with no email or a malformed
\* one, and every verifyOTP call with no email, a malformed email, no code
\* or a code that is not six digits, throws INVALID_VALUE and leaves otps,
\* rls, users and sessions as they were.
C19_InvalidInputRefused ==
    [][/\ resp'.op = "requestOTP" =>
              \A email \in BadEmails : RequestOTP(email, IP1, 7, "ok") => Refused
       /\ resp'.op = "resendOTP" =>
              \A email \in BadEmails : ResendOTP(email, IP1, 7, "ok") => Refused
       /\ resp'.op = "verifyOTP" =>
              /\ \A email \in BadEmails, code \in {NoCode, CodeNever} :
                     VerifyOTP(email, code, "ok") => Refused
              /\ \A code \in BadCodes :
                     VerifyOTP(EmailA, code, "ok") => Refused]_vars

\* A verifyOTP call with a malformed code was refused while a code, limiter
\* records, a user and a session were stored.
C19_Witness ==
    /\ resp = Thrown("verifyOTP", INVALID_VALUE, "Invalid code format")
    /\ otps # {}
    /\ rls # {}
    /\ users # {}
    /\ sessions # {}

(***************************************************************************)
(* C20.  After a requestOTP call that no limiter rejects, the store holds  *)
(* exactly one OTPCode record for the email's hash, with attempts = 0 and  *)
(* expires_at = the time of the call + 600 seconds, whatever record        *)
(* existed for the email before.                                           *)
(***************************************************************************)
\* C20: whatever the stores hold, every outcome of a requestOTP call that
\* passed its limiters leaves one record for the hash of the normalized
\* email, with the hash of the call's code, attempts 0 and expires_at =
\* now + OTP_EXPIRY_MINUTES.
C20_OneFreshRecord ==
    \A email \in IssueEmails, n \in Draws :
        \A out \in requestOTP(otps, rls, now, email, NoIP, n, "ok") :
            out.issued # NoCode =>
                \E r \in out.otps :
                    /\ {x \in out.otps : x.email_hash = hashSHA256(normalizeEmail(email))} = {r}
                    /\ r.code_hash = hashSHA256(generateOTPCode(n))
                    /\ r.attempts = 0
                    /\ r.expires_at = now + OTP_EXPIRY_MINUTES

\* A requestOTP call made after the clock moved was admitted and replaced a
\* record whose code had been tried: the store holds its record alone.
C20_Witness ==
    \E o \in Owners, r \in otps :
        /\ resp.op = "requestOTP"
        /\ mail = MailDelivered
        /\ now = OTP_EXPIRY_MINUTES
        /\ hist[o].issuedAt = now
        /\ hist[o].superseded = NoCode
        /\ users = {}
        /\ RecordsOf(o) = {r}
        /\ r.attempts = 0
        /\ r.expires_at = now + OTP_EXPIRY_MINUTES
        /\ \E l \in rls : l.type = "email" /\ l.count >= 2

(***************************************************************************)
(* C21.  A successful verifyOTP leaves no OTPCode record for the email's   *)
(* hash and returns a session token together with isNewUser: true exactly  *)
(* when no user with the normalized email existed before the call, and a   *)
(* user is then created; false when one existed, and then no user is       *)
(* created and a new session is bound to the existing user.                *)
(***************************************************************************)
\* C21: after a verifyOTP call that returned a session token for the user o,
\* no record of o's hash is stored, the token belongs to a new session of o,
\* isNewUser tells that o had no user before the call, in which case the
\* call added one user, of email o, and otherwise it added none.
C21_SuccessResolvesIdentity ==
    [][(/\ VerifyStep
        /\ now' = now
        /\ resp'.sessionToken # NoToken \/ sessions' # sessions)
       => LET o == resp'.user
              existed == \E u \in users : u.email = o
          IN  /\ resp'.sessionToken # NoToken
              /\ \A r \in otps' : r.email_hash # hashSHA256(o)
              /\ sessions' = sessions \cup
                     {[user |-> o, sessionToken |-> resp'.sessionToken]}
              /\ resp'.sessionToken \notin {x.sessionToken : x \in sessions}
              /\ resp'.isNewUser = ~existed
              /\ existed => users' = users
              /\ ~existed => \E u \in users' :
                                 /\ u.email = o
                                 /\ users' = users \cup {u}]_vars

\* A verifyOTP call for a new user and a later one for the same user have
\* both returned a session: the second answered isNewUser = false.
C21_Witness ==
    /\ ReturnedSession
    /\ ~resp.isNewUser
    /\ Cardinality(sessions) = 2
    /\ Cardinality(users) = 1
    /\ otps = {}

(***************************************************************************)
(* C22.  verifyOTP for an email that has no OTPCode record (no requestOTP  *)
(* before, or the record consumed or removed) fails with OBJECT_NOT_FOUND  *)
(* for every well-formed code and changes no stored state.                 *)
(***************************************************************************)
\* C22: every verifyOTP call with a well-formed email and code, made while
\* no record of the email's hash is stored, throws OBJECT_NOT_FOUND and
\* leaves otps, rls, users and sessions as they were.
C22_NoRecordNotFound ==
    /\ [](\A email \in VerifyEmails :
             RecordsOf(normalizeEmail(email)) = {}
             => \A code \in VerifyCodes, identity \in Identities :
                   \A out \in verifyOTP(otps, users, sessions, now, email,
                                        code, identity) :
                       /\ out.resp.error = OBJECT_NOT_FOUND
                       /\ out.resp.sessionToken = NoToken
                       /\ out.otps = otps
                       /\ out.users = users
                       /\ out.sessions = sessions)
    /\ [][(VerifyStep /\ now' = now) => rls' = rls]_vars

\* A verifyOTP call failed with no record stored, after the code of the
\* email had been consumed by a call that created the user and a session.
C22_Witness ==
    /\ resp = Thrown("verifyOTP", OBJECT_NOT_FOUND, "Invalid or expired code")
    /\ otps = {}
    /\ rls # {}
    /\ users # {}
    /\ sessions # {}
    /\ \E o \in Owners : hist[o].verified

(***************************************************************************)
(* C23.  If sendOTPEmail fails during requestOTP or resendOTP, the call    *)
(* still returns success and the OTPCode record written just before the    *)
(* delivery stays in the store unchanged, so the code that was never       *)
(* delivered still verifies until it expires or is replaced.               *)
(***************************************************************************)
\* The outcomes of both functions for email and draw n with the mail sender
\* in condition mailer, the use of the mail sender left out.
IssueOutcomes(email, n, mailer) ==
    {[otps |-> out.otps, rls |-> out.rls, resp |-> out.resp, issued |-> out.issued]
     : out \in requestOTP(otps, rls, now, email, NoIP, n, mailer)
               \cup resendOTP(otps, rls, now, email, NoIP, n, mailer)}

\* C23: in every state of the stores, a requestOTP or resendOTP call whose
\* mail sender throws has the outcomes of the call whose mail sender
\* delivers: the same response, the same stores; and when it issued a code,
\* the response is success, the record of the code is stored with attempts
\* 0, and verifyOTP with that code returns a session at once and at
\* expires_at.
C23_UndeliveredCodeValid ==
    \A email \in IssueEmails, n \in Draws :
        /\ IssueOutcomes(email, n, "error") = IssueOutcomes(email, n, "ok")
        /\ \A out \in requestOTP(otps, rls, now, email, NoIP, n, "error")
                         \cup resendOTP(otps, rls, now, email, NoIP, n, "error") :
              out.issued # NoCode =>
                  /\ out.mail = MailFailed
                  /\ SuccessOnly(out.resp)
                  /\ \E r \in out.otps :
                        /\ r.email_hash = hashSHA256(normalizeEmail(email))
                        /\ r.code_hash = hashSHA256(out.issued)
                        /\ r.attempts = 0
                        /\ r.expires_at = now + OTP_EXPIRY_MINUTES
                  /\ \A t \in {now, now + OTP_EXPIRY_MINUTES} :
                        \A v \in verifyOTP(out.otps, users, sessions, t, email,
                                           out.issued, "ok") :
                            v.resp.sessionToken # NoToken

\* The mail sender threw in the last call, which answered success, and the
\* record of the code it generated is stored.
C23_Witness ==
    \E o \in Owners, r \in otps :
        /\ mail = MailFailed
        /\ SuccessOnly(resp)
        /\ RecordsOf(o) = {r}
        /\ r.code_hash = hashSHA256(hist[o].issued)
        /\ r.attempts = 0
        /\ hist[o].superseded # NoCode

(***************************************************************************)
(* C24.  checkRateLimit(identifierHash, kind, limit, windowMinutes), for   *)
(* every store state: if a record of (identifierHash, kind) with           *)
(* window_start within windowMinutes of now exists and its count >= limit, *)
(* it returns exceeded = true and changes nothing; if it exists with       *)
(* count < limit, it increases its count by exactly 1 and returns false;   *)
(* if none exists, it creates one record with count = 1 and window_start = *)
(* now and returns false.  Records of other pairs are never changed.       *)
(***************************************************************************)
LimiterKeys == EmailKeys \cup IPKeys \cup ResendKeys

\* The records of key whose window_start is less than the window of key
\* before now.
Current(key) ==
    {r \in rls : /\ r.type = key[1]
                 /\ r.identifier_hash = key[2]
                 /\ now - r.window_start < WindowMinutes(key)}

\* The outcome c of a call for key is the one the reference gives.
AsReference(key, c) ==
    IF Current(key) = {}
    THEN /\ ~c.exceeded
         /\ \E r \in c.rls :
               /\ r \notin rls
               /\ c.rls = rls \cup {r}
               /\ r.type = key[1]
               /\ r.identifier_hash = key[2]
               /\ r.count = 1
               /\ r.window_start = now
    ELSE \E e \in Current(key) :
            IF e.count >= Limit(key)
            THEN c.exceeded /\ c.rls = rls
            ELSE /\ ~c.exceeded
                 /\ c.rls \ rls = {[e EXCEPT !.count = e.count + 1]}
                 /\ rls \ c.rls = {e}

\* C24: in every state of the store and for every limiter, each outcome of
\* checkRateLimit is the reference's, and the records of the other pairs of
\* identifier and kind are the same before and after.
C24_CheckRateLimitReference ==
    \A key \in LimiterKeys :
        \A c \in checkRateLimit(rls, now, key[2], key[1], Limit(key), WindowMinutes(key)) :
            /\ AsReference(key, c)
            /\ {r \in c.rls : r.type # key[1] \/ r.identifier_hash # key[2]}
                  = {r \in rls : r.type # key[1] \/ r.identifier_hash # key[2]}

\* The store holds a full record in its window, a record in its window that
\* is not full, and a limiter all of whose records are past their window.
C24_Witness ==
    /\ \E key \in LimiterKeys : \E r \in Current(key) : r.count >= Limit(key)
    /\ \E key \in LimiterKeys : \E r \in Current(key) : r.count < Limit(key)
    /\ \E key \in LimiterKeys :
          /\ Current(key) = {}
          /\ \E r \in rls : r.type = key[1] /\ r.identifier_hash = key[2]

(***************************************************************************)
(* SpecPair: two addresses, no client IP.  For the first, requestOTP is    *)
(* called and verifyOTP with the code that is issued and a code that never *)
(* is; for the second, resendOTP.  Between two calls either no time passes *)
(* or more than the life of a code.                                        *)
(***************************************************************************)
PairEmails == {EmailA, EmailD}
PairCodes == {generateOTPCode(7), CodeNever}

NextPair ==
    \/ Tick(2 * OTP_EXPIRY_MINUTES, MaxTime)
    \/ RequestOTP(EmailA, NoIP, 7, "ok")
    \/ ResendOTP(EmailD, NoIP, 7, "ok")
    \/ \E code \in PairCodes : VerifyOTP(EmailA, code, "ok")

SpecPair == Init /\ [][NextPair]_vars

(***************************************************************************)
(* C25.  An OTPCode record is removed only by an admitted requestOTP or    *)
(* resendOTP for the same email, by a successful verifyOTP, by a verifyOTP *)
(* that finds it expired, or by a verifyOTP that finds its attempts at     *)
(* MAX_ATTEMPTS or more; a verifyOTP with a wrong code never removes it;   *)
(* no operation on one email removes or changes the record of another.     *)
(***************************************************************************)
\* The step is an admitted requestOTP or resendOTP call for email: the
\* records of its hash are replaced by one new record.
ReplacedByIssue(email) ==
    /\ resp'.op \in {"requestOTP", "resendOTP"}
    /\ \/ \E n \in Draws, mailer \in Mailers : RequestOTP(email, NoIP, n, mailer)
       \/ \E n \in Draws, mailer \in Mailers : ResendOTP(email, NoIP, n, mailer)
    /\ mail' # MailNone
    /\ \E r \in otps' :
          /\ r.email_hash = hashSHA256(normalizeEmail(email))
          /\ r.attempts = 0
          /\ r.expires_at = now + OTP_EXPIRY_MINUTES
          /\ \A x \in otps' : x.email_hash = r.email_hash => x = r

\* The step is a verifyOTP call for email with code that read the record r:
\* r is removed on success, when expired and when its attempts are used up,
\* and kept with one more attempt on a wrong code.
TouchedByVerify(email, code, r) ==
    /\ resp'.op = "verifyOTP"
    /\ VerifyOTP(email, code, "ok")
    /\ r.email_hash = hashSHA256(normalizeEmail(email))
    /\ IF \/ now > r.expires_at
          \/ r.attempts >= MAX_ATTEMPTS
          \/ resp'.sessionToken # NoToken
       THEN otps' = otps \ {r}
       ELSE /\ r.code_hash # hashSHA256(code)
            /\ otps' = (otps \ {r}) \cup {[r EXCEPT !.attempts = r.attempts + 1]}
    /\ resp'.sessionToken # NoToken
          => /\ r.code_hash = hashSHA256(code)
             /\ now <= r.expires_at
             /\ r.attempts < MAX_ATTEMPTS

\* C25: a step that changes the OTPCode store is a call for one email that
\* leaves the records of every other email_hash as they were, and is either
\* an admitted requestOTP or resendOTP, or a verifyOTP that removes the
\* record it read on success, on expiry and on used-up attempts and keeps
\* it, with one more attempt, on a wrong code.
C25_RemovalPaths ==
    [][otps' # otps
       => \E email \in PairEmails :
             /\ {r \in otps' : r.email_hash # hashSHA256(normalizeEmail(email))}
                   = {r \in otps : r.email_hash # hashSHA256(normalizeEmail(email))}
             /\ \/ ReplacedByIssue(email)
                \/ \E code \in PairCodes, r \in otps :
                      TouchedByVerify(email, code, r)]_vars

\* A verifyOTP call has removed the record of one email for its used-up
\* attempts while the record of the other email is in the store.
C25_Witness ==
    /\ resp = Thrown("verifyOTP", OBJECT_NOT_FOUND, "Too many failed attempts. Please request a new code.")
    /\ RecordsOf(EmailA) = {}
    /\ RecordsOf(EmailD) # {}

(***************************************************************************)
(* SpecIdentity: the identity store fails.  requestOTP is called for one   *)
(* address without a client IP; verifyOTP is called for it with the code   *)
(* that is issued and a code that never is, while the identity store       *)
(* answers or fails one of its requests; the clock reaches MaxTime.        *)
(***************************************************************************)
NextIdentity ==
    \/ Tick(OTP_EXPIRY_MINUTES, MaxTime)
    \/ RequestOTP(EmailAUpper, NoIP, 7, "ok")
    \/ \E code \in PairCodes, identity \in {"ok"} \cup IdentityFaults :
          VerifyOTP(EmailA, code, identity)

SpecIdentity == Init /\ [][NextIdentity]_vars

(***************************************************************************)
(* C26.  When the session creation or the user creation fails during       *)
(* verifyOTP the call fails with INTERNAL_SERVER_ERROR and no user created *)
(* by the call remains: every verifyOTP call that ends in an error leaves  *)
(* the set of users unchanged.                                             *)
(***************************************************************************)
\* C26: a verifyOTP call that ends in an error leaves the set of users as
\* it was, and the error of a call that got past the code is
\* INTERNAL_SERVER_ERROR.
C26_ErrorKeepsUsers ==
    [][(VerifyStep /\ now' = now /\ resp'.error # NO_ERROR)
       => /\ users' = users
          /\ resp'.error \in {INVALID_VALUE, OBJECT_NOT_FOUND, INTERNAL_SERVER_ERROR}]_vars

(***************************************************************************)
(* C27.  No operation deletes an OTPRateLimit record or lowers its count:  *)
(* the set of records only grows, and a record that is past its window is  *)
(* left unchanged when a new record for its key is created.                *)
(***************************************************************************)
\* The record r is past the window of its limiter.
PastWindow(r) == now - r.window_start >= WindowMinutes(<<r.type, r.identifier_hash>>)

\* C27: over every step each OTPRateLimit record stays in the store with
\* its key and its window_start and with a count that is not lower, and a
\* record past its window stays as it is.
C27_RateLimitsOnlyGrow ==
    [][\A r \in rls :
          /\ \E x \in rls' :
                /\ x.id = r.id
                /\ x.type = r.type
                /\ x.identifier_hash = r.identifier_hash
                /\ x.window_start = r.window_start
                /\ x.count >= r.count
          /\ PastWindow(r) => r \in rls']_vars

\* A limiter has a record past its window with a count above 1, and a newer
\* record made by a call that found none in the window.
C27_Witness ==
    \E r \in rls, x \in rls :
        /\ x.type = r.type
        /\ x.identifier_hash = r.identifier_hash
        /\ PastWindow(r)
        /\ r.count > 1
        /\ x.window_start = now
        /\ x.id # r.id

(***************************************************************************)
(* C28.  For one stored OTPCode record at most MAX_ATTEMPTS submitted      *)
(* codes are ever compared against its code_hash before the record stops   *)
(* accepting guesses, over every interleaving of verifyOTP calls running   *)
(* at the same time.                                                       *)
(***************************************************************************)
\* The calls in progress that have compared their code with the code_hash
\* of the record r and have not yet saved the increment or destroyed it.
Comparing(r) ==
    {c \in Callers : /\ calls[c].pc \in {"increment.save", "verified.destroy"}
                     /\ \E h \in calls[c].held : SameOTP(r, h)}

\* C28: the comparisons made against a stored record, those counted in its
\* attempts and those of the calls in progress, are at most MAX_ATTEMPTS.
C28_ComparisonsBounded ==
    \A r \in otps : r.attempts + Cardinality(Comparing(r)) <= MAX_ATTEMPTS

(***************************************************************************)
(* C29.  verifyOTP deletes the OTPCode record before it looks up or        *)
(* creates the user and before it mints the session; if the user creation  *)
(* or the session creation then fails, the record stays deleted, so a      *)
(* second verifyOTP with the same correct code fails with OBJECT_NOT_FOUND *)
(* and a new code must be requested.                                       *)
(***************************************************************************)
\* The step is a verifyOTP call that the identity store failed.
IdentityFailed ==
    /\ VerifyStep
    /\ now' = now
    /\ resp'.error \in {INTERNAL_SERVER_ERROR, STORE_ERROR}

\* C29: a verifyOTP call that the identity store fails has removed the
\* record whose code it carried and no other, no record of the email is
\* left, and verifyOTP with the same code then fails with OBJECT_NOT_FOUND
\* whatever the identity store does, changing nothing.
C29_FailureConsumesCode ==
    [][IdentityFailed
       => \E r \in otps, code \in PairCodes :
             /\ r.email_hash = hashSHA256(normalizeEmail(EmailA))
             /\ r.code_hash = hashSHA256(code)
             /\ otps' = otps \ {r}
             /\ \A x \in otps' : x.email_hash # r.email_hash
             /\ \A identity \in {"ok"} \cup IdentityFaults :
                   \A v \in verifyOTP(otps', users', sessions', now, EmailA, code, identity) :
                       /\ v.resp = Thrown("verifyOTP", OBJECT_NOT_FOUND, "Invalid or expired code")
                       /\ v.otps = otps'
                       /\ v.users = users'
                       /\ v.sessions = sessions']_vars

\* The issued code was sent twice before it expired and before the attempts
\* were used up, and no session was returned: the identity store failed the
\* first call and the second one has found no record.
C29_Witness ==
    \E o \in Owners :
        /\ hist[o].issued # NoCode
        /\ hist[o].rights = 2
        /\ hist[o].streak = Broken
        /\ ~hist[o].verified
        /\ Unexpired(o)
        /\ RecordsOf(o) = {}
        /\ resp = Thrown("verifyOTP", OBJECT_NOT_FOUND, "Invalid or expired code")

(***************************************************************************)
(* C30.  The limiters run in a fixed order and each one that admits the    *)
(* call increments its counter before the next one runs: email then IP in  *)
(* requestOTP; resend, email, IP in resendOTP.  A call rejected by a later *)
(* limiter has raised the counters of the earlier ones by 1 although no    *)
(* code is issued, and the limiters after the rejecting one are unchanged. *)
(***************************************************************************)
\* The limiters of a call, in the order of the code; the per-IP limiter is
\* left out when the request has no IP.
LimitersOf(op, email, ip) ==
    (IF op = "resendOTP" THEN <<ResendKey(email)>> ELSE <<>>)
    \o <<EmailKey(email)>>
    \o (IF ip # NoIP THEN <<IPKey(ip)>> ELSE <<>>)

\* The counter of the limiter of key in the store s at the present time:
\* the counts of its records in the window (0 with none).
RECURSIVE SumOfCounts(_)
SumOfCounts(records) ==
    IF records = {} THEN 0
    ELSE LET r == CHOOSE x \in records : TRUE
         IN  r.count + SumOfCounts(records \ {r})

Counter(s, key) ==
    SumOfCounts({r \in s : /\ r.type = key[1]
                           /\ r.identifier_hash = key[2]
                           /\ now - r.window_start < WindowMinutes(key)})

\* The calls made in SpecIP.
LimitedCalls ==
    {<<"requestOTP", EmailA, NoIP>>, <<"requestOTP", EmailA, IP1>>,
     <<"resendOTP", EmailD, IP1>>}

OutcomesOf(call) ==
    IF call[1] = "requestOTP"
    THEN requestOTP(otps, rls, now, call[2], call[3], 7, "ok")
    ELSE resendOTP(otps, rls, now, call[2], call[3], 7, "ok")

\* C30: in every state and for every call, the counter of a limiter is
\* raised by 1 when it and the limiters before it in the order are below
\* their limit, and is unchanged otherwise; a code is issued when every
\* limiter of the call is below its limit, and only then.
C30_LimitersInOrder ==
    \A call \in LimitedCalls :
        LET L == LimitersOf(call[1], call[2], call[3])
            Admitted(i) == \A j \in 1..i : Counter(rls, L[j]) < Limit(L[j])
        IN  \A out \in OutcomesOf(call) :
                /\ \A i \in 1..Len(L) :
                      Counter(out.rls, L[i])
                         = Counter(rls, L[i]) + (IF Admitted(i) THEN 1 ELSE 0)
                /\ out.passed = {L[i][1] : i \in {j \in 1..Len(L) : Admitted(j)}}
                /\ (out.issued # NoCode) = Admitted(Len(L))
                /\ out.issued = NoCode => out.otps = otps

\* The last call was a resendOTP that the per-IP limiter stopped: the resend
\* and email counters of its address were raised and no code was issued.
C30_Witness ==
    /\ resp.op = "resendOTP"
    /\ rate[IPKey(IP1)].stopped
    /\ Counter(rls, ResendKey(EmailD)) > 0
    /\ Counter(rls, EmailKey(EmailD)) > 0
    /\ Counter(rls, IPKey(IP1)) >= RATE_LIMIT_IP_PER_HOUR

====
